---------------------------- MODULE Spec2Model ----------------------------
(***************************************************************************)
(* Voice-agent relay of src/main.py: module initialisation (credential     *)
(* validation), the startup sweep of temp_audio, and the FastAPI handlers  *)
(* /chat, /stt, /tts, / and /health.                                       *)
(*                                                                         *)
(* Every handler is declared "async def", so FastAPI runs it on the one    *)
(* event loop of the process.  A coroutine keeps the loop from the point   *)
(* it is resumed until its next "await" or its return.  The only await in  *)
(* the handlers is "await file.read()" in speech_to_text; requests.post,   *)
(* requests.get, time.sleep, the Groq call and gTTS are ordinary blocking  *)
(* calls.  The variable loop names the request whose handler currently     *)
(* holds the event loop.                                                   *)
(*                                                                         *)
(* The remote services (Groq, AssemblyAI, the gTTS back end), the file     *)
(* system and uuid.uuid4 are the environment: their answers are chosen     *)
(* nondeterministically from small sets that contain every shape the       *)
(* handlers distinguish (success, non-200 status, a body without the       *)
(* expected key, a raised exception).  uuid4 is taken to return a value it *)
(* has not returned before in this process.                                *)
(***************************************************************************)
EXTENDS Integers, FiniteSets, Sequences, TLC

NumReqs == 2          \* HTTP requests received after startup
MaxOld == 1           \* .mp3 files found in temp_audio when the process starts
max_attempts == 60    \* main.py:108

Reqs == 1..NumReqs
NoReq == 0

VARIABLES
    env,             \* os.environ after load_dotenv(): the two credentials
    proc,            \* "import" | "startup" | "cleanup" | "serving" | "crashed"
    dir,             \* temp_audio: file name -> request that wrote it (NoReq: older)
    todo,            \* cleanup_old_files: entries of the glob not yet visited
    unlinkFailed,    \* files whose unlink() raised during the sweep
    atStartup,       \* the names in temp_audio when the sweep had finished
    kind,            \* route of each request, "none" before it arrives
    pc,              \* position of each request's handler
    resp,            \* value returned by the handler
    fault,           \* whether a step of the request's handling has failed
    loop,            \* request whose handler holds the event loop, or NoReq
    upload,          \* speech_to_text: upload.status_code
    audio_url,       \* speech_to_text: audio_url
    transcript_req,  \* speech_to_text: transcript_req.status_code
    transcript_id,   \* speech_to_text: transcript_id
    attempt,         \* speech_to_text: attempt
    polling,         \* speech_to_text: polling (the last decoded poll body)
    filename,        \* text_to_speech: filename
    issued,          \* values uuid.uuid4() has returned
    jobOf,           \* AssemblyAI: id of the job created by each request's submission
    submits,         \* calls to POST /v2/transcript made by the running handler
    polls,           \* calls to GET /v2/transcript/{id} made by the running handler
    sleeps,          \* calls to time.sleep made by the running handler
    polled,          \* transcript ids the running handler's polls were addressed to
    written,         \* <<request, file name>> of every file a /tts request saved
    served           \* <<request, writer of the file sent>> of every file response

vars == <<env, proc, dir, todo, unlinkFailed, atStartup, kind, pc, resp, fault, loop,
          upload, audio_url, transcript_req, transcript_id, attempt, polling,
          filename, issued, jobOf, submits, polls, sleeps, polled, written,
          served>>

sttLocals == <<upload, audio_url, transcript_req, transcript_id, attempt, polling>>
sttCalls == <<submits, polls, sleeps, polled>>
remote == <<jobOf>>
boot == <<env, proc, todo, unlinkFailed, atStartup>>

-----------------------------------------------------------------------------
(* Values *)

Unset == "<None>"                         \* os.getenv of a variable that is not set
EnvValues == {Unset, "", "key"}
Unbound == [unbound |-> TRUE]              \* a local not yet assigned, no response yet

Truthy(v) == v # Unset /\ v # ""           \* Python truth of an Optional[str]

Mp3(stem) == [stem |-> stem, suffix |-> ".mp3"]
OldMp3 == {Mp3("old" \o ToString(i)) : i \in 1..MaxOld}
Notes == [stem |-> "notes", suffix |-> ".txt"]

(* AssemblyAI names every upload and every job differently: the handle and the
   transcript id it would hand to request r. *)
Handle(r) == NumReqs + r
JobId(r) == r

InitialDir(n) ==
    [f \in {Mp3("old" \o ToString(i)) : i \in 1..n} \cup {Notes} |-> NoReq]

Remove(d, f) == [g \in (DOMAIN d) \ {f} |-> d[g]]
Store(d, f, r) == [g \in (DOMAIN d) \cup {f} |-> IF g = f THEN r ELSE d[g]]

(* Outcome of a piece of handler code: fall through, return a value, raise. *)
Go == [op |-> "next", val |-> Unbound]
Ret(v) == [op |-> "return", val |-> v]
Exc(m) == [op |-> "raise", val |-> [exc |-> m]]

-----------------------------------------------------------------------------
(* Module initialisation, main.py:14-41 *)

(* Variant: the validation tests "is None", which an empty string passes. *)
StartupErrorIsNone(e) ==
    IF e.GROQ_API_KEY = Unset THEN "GROQ_API_KEY not found in .env"
    ELSE IF e.ASSEMBLYAI_API_KEY = Unset THEN "ASSEMBLYAI_API_KEY not found in .env"
    ELSE ""

StartupError(e) ==
    IF ~Truthy(e.GROQ_API_KEY) THEN "GROQ_API_KEY not found in .env"
    ELSE IF ~Truthy(e.ASSEMBLYAI_API_KEY) THEN "ASSEMBLYAI_API_KEY not found in .env"
    ELSE ""

ModuleInit ==
    /\ proc = "import"
    /\ proc' = IF StartupError(env) = "" THEN "startup" ELSE "crashed"
    /\ UNCHANGED <<fault, env, dir, todo, unlinkFailed, atStartup, kind, pc, resp, loop,
                   sttLocals, filename, issued, remote, sttCalls, written, served>>

-----------------------------------------------------------------------------
(* cleanup_old_files, main.py:159-166 *)

(* Variant: the sweep looks for another suffix and finds nothing to delete. *)
GlobWav(d) == {f \in DOMAIN d : f.suffix = ".wav"}

Glob(d) == {f \in DOMAIN d : f.suffix = ".mp3"}

CleanupBegin ==
    /\ proc = "startup"
    /\ proc' = "cleanup"
    /\ todo' = Glob(dir)
    /\ UNCHANGED <<fault, env, dir, unlinkFailed, atStartup, kind, pc, resp, loop,
                   sttLocals, filename, issued, remote, sttCalls, written, served>>

UnlinkOk(f) ==
    /\ dir' = Remove(dir, f)
    /\ UNCHANGED unlinkFailed

UnlinkRaises(f) ==
    /\ unlinkFailed' = unlinkFailed \cup {f}
    /\ UNCHANGED dir

CleanupUnlink(f) ==
    /\ proc = "cleanup"
    /\ f \in todo
    /\ todo' = todo \ {f}
    /\ (UnlinkOk(f) \/ UnlinkRaises(f))
    /\ UNCHANGED <<fault, env, proc, atStartup, kind, pc, resp, loop, sttLocals, filename,
                   issued, remote, sttCalls, written, served>>

CleanupEnd ==
    /\ proc = "cleanup"
    /\ todo = {}
    /\ proc' = "serving"
    /\ atStartup' = DOMAIN dir
    /\ UNCHANGED <<fault, env, dir, todo, unlinkFailed, kind, pc, resp, loop, sttLocals,
                   filename, issued, remote, sttCalls, written, served>>

-----------------------------------------------------------------------------
(* Requests *)

(* The server accepts a connection.  The request is read and routed on the
   event loop, so its route is known once its handler is entered. *)
Arrive(r) ==
    /\ proc = "serving"
    /\ pc[r] = "none"
    /\ IF r = 1 THEN TRUE ELSE pc[r - 1] # "none"
    /\ pc' = [pc EXCEPT ![r] = "accepted"]
    /\ UNCHANGED <<fault, boot, dir, kind, resp, loop, sttLocals, filename, issued, remote,
                   sttCalls, written, served>>

(* The event loop is free and dispatches request r to the handler of route k. *)
Dispatch(r, k) ==
    /\ loop = NoReq
    /\ pc[r] = "accepted"
    /\ kind' = [kind EXCEPT ![r] = k]

(* root, main.py:173-175 *)
Root(r) ==
    /\ Dispatch(r, "root")
    /\ resp' = [resp EXCEPT ![r] = [status |-> "Voice Agent API is running"]]
    /\ pc' = [pc EXCEPT ![r] = "done"]
    /\ UNCHANGED <<fault, boot, dir, loop, sttLocals, filename, issued, remote,
                   sttCalls, written, served>>

(* health, main.py:178-184 *)
HealthBody(e) ==
    [status |-> "healthy",
     groq_configured |-> Truthy(e.GROQ_API_KEY),
     assemblyai_configured |-> Truthy(e.ASSEMBLYAI_API_KEY)]

Health(r) ==
    /\ Dispatch(r, "health")
    /\ resp' = [resp EXCEPT ![r] = HealthBody(env)]
    /\ pc' = [pc EXCEPT ![r] = "done"]
    /\ UNCHANGED <<fault, boot, dir, loop, sttLocals, filename, issued, remote,
                   sttCalls, written, served>>

-----------------------------------------------------------------------------
(* chat, main.py:47-64 *)

ChatReplies ==
    {[raises |-> FALSE, exc |-> "", choices |-> <<"Hi there">>],
     [raises |-> FALSE, exc |-> "", choices |-> <<>>],
     [raises |-> TRUE, exc |-> "Connection error.", choices |-> <<>>]}

ChatTry(c) ==
    IF c.raises THEN Exc(c.exc)
    ELSE IF Len(c.choices) = 0 THEN Exc("list index out of range")
    ELSE Ret([response |-> c.choices[1]])

ChatExcept(m) == [response |-> "Error: " \o m]

ChatBody(c) ==
    IF ChatTry(c).op = "raise" THEN ChatExcept(ChatTry(c).val.exc) ELSE ChatTry(c).val

Chat(r) ==
    /\ Dispatch(r, "chat")
    /\ \E c \in ChatReplies :
          /\ resp' = [resp EXCEPT ![r] = ChatBody(c)]
          /\ fault' = [fault EXCEPT ![r] = c.raises \/ Len(c.choices) = 0]
    /\ pc' = [pc EXCEPT ![r] = "done"]
    /\ UNCHANGED <<boot, dir, loop, sttLocals, filename, issued, remote,
                   sttCalls, written, served>>

-----------------------------------------------------------------------------
(* speech_to_text, main.py:71-129 *)

HttpStatuses == {200, 401, 500}

(* Variant: "except requests.RequestException", which lets a KeyError through. *)
SttExceptRequestsOnly(m) ==
    IF m = "Connection aborted." THEN [error |-> m] ELSE [raised |-> m]

SttExcept(m) == [error |-> m]

(* What a step's outcome does to the handler: go on at pc `nxt`, or leave
   through a return statement or through the except clause. *)
SttResult(r, out, nxt) ==
    /\ pc' = [pc EXCEPT ![r] = IF out.op = "next" THEN nxt ELSE "returned"]
    /\ resp' = [resp EXCEPT ![r] =
                   IF out.op = "return" THEN out.val
                   ELSE IF out.op = "raise" THEN SttExcept(out.val.exc)
                   ELSE @]

SttBegin(r) ==
    /\ Dispatch(r, "stt")
    /\ pc' = [pc EXCEPT ![r] = "read"]
    /\ UNCHANGED <<fault, boot, dir, resp, loop, sttLocals, filename, issued, remote,
                   sttCalls, written, served>>

(* await file.read() completes and the coroutine is resumed, main.py:74 *)
SttRead(r) ==
    /\ loop = NoReq
    /\ pc[r] = "read"
    /\ loop' = r
    /\ \E ok \in BOOLEAN :
          /\ SttResult(r, IF ok THEN Go ELSE Exc("read of closed file"), "upload")
          /\ fault' = [fault EXCEPT ![r] = ~ok]
    /\ UNCHANGED <<boot, dir, kind, sttLocals, filename, issued, remote, sttCalls,
                   written, served>>

(* Answers of POST /v2/upload, h the handle of a stored upload. *)
UploadReplies(h) ==
    {[raises |-> FALSE, status_code |-> 200, json |-> [upload_url |-> h]],
     [raises |-> FALSE, status_code |-> 200, json |-> [message |-> "ok"]],
     [raises |-> TRUE, status_code |-> 0, json |-> [exc |-> "Connection aborted."]]}
    \cup {[raises |-> FALSE, status_code |-> s, json |-> [error |-> "rejected"]] :
            s \in HttpStatuses \ {200}}

(* Variant: only server errors count as a failed upload. *)
UploadFailedServerOnly(status_code) == status_code >= 500

UploadFailed(status_code) == status_code # 200

(* main.py:82-91 *)
UploadStep(u) ==
    IF u.raises THEN Exc(u.json.exc)
    ELSE IF UploadFailed(u.status_code) THEN Ret([error |-> "Failed to upload audio"])
    ELSE IF "upload_url" \notin DOMAIN u.json THEN Exc("'upload_url'")
    ELSE Go

SttUpload(r) ==
    /\ loop = r
    /\ pc[r] = "upload"
    /\ \E u \in UploadReplies(Handle(r)) :
          /\ SttResult(r, UploadStep(u), "submit")
          /\ fault' = [fault EXCEPT ![r] =
                          u.raises \/ u.status_code # 200 \/ "upload_url" \notin DOMAIN u.json]
          /\ upload' = [upload EXCEPT ![r] = IF u.raises THEN @ ELSE u.status_code]
          /\ audio_url' = [audio_url EXCEPT ![r] =
                              IF UploadStep(u).op = "next" THEN u.json.upload_url ELSE @]
    /\ UNCHANGED <<boot, dir, kind, loop, transcript_req, transcript_id, attempt,
                   polling, filename, issued, jobOf, sttCalls, written, served>>

(* Answers of POST /v2/transcript, j the id of a created job. *)
SubmitReplies(j) ==
    {[raises |-> FALSE, status_code |-> 200, json |-> [id |-> j]],
     [raises |-> FALSE, status_code |-> 200, json |-> [message |-> "ok"]],
     [raises |-> TRUE, status_code |-> 0, json |-> [exc |-> "Connection aborted."]]}
    \cup {[raises |-> FALSE, status_code |-> s, json |-> [error |-> "rejected"]] :
            s \in HttpStatuses \ {200}}

SubmitFailed(status_code) == status_code # 200

(* main.py:94-103 *)
SubmitStep(t) ==
    IF t.raises THEN Exc(t.json.exc)
    ELSE IF SubmitFailed(t.status_code)
         THEN Ret([error |-> "Failed to request transcription"])
    ELSE IF "id" \notin DOMAIN t.json THEN Exc("'id'")
    ELSE Go

SttSubmit(r) ==
    /\ loop = r
    /\ pc[r] = "submit"
    /\ \E t \in SubmitReplies(JobId(r)) :
          /\ SttResult(r, SubmitStep(t), "poll")
          /\ fault' = [fault EXCEPT ![r] =
                          t.raises \/ t.status_code # 200 \/ "id" \notin DOMAIN t.json]
          /\ transcript_req' = [transcript_req EXCEPT ![r] =
                                   IF t.raises THEN @ ELSE t.status_code]
          /\ transcript_id' = [transcript_id EXCEPT ![r] =
                                  IF SubmitStep(t).op = "next" THEN t.json.id ELSE @]
          /\ jobOf' = [jobOf EXCEPT ![r] = IF "id" \in DOMAIN t.json THEN t.json.id ELSE @]
    /\ submits' = [submits EXCEPT ![r] = @ + 1]
    /\ UNCHANGED <<boot, dir, kind, loop, upload, audio_url, attempt, polling,
                   filename, issued, polls, sleeps, polled, written, served>>

(* Answers of GET /v2/transcript/{id}: the decoded body, or an exception of
   requests.get or of .json(). *)
PollReplies ==
    {[raises |-> FALSE, json |-> [status |-> "processing"]],
     [raises |-> FALSE, json |-> [status |-> "completed", text |-> "hello world"]],
     [raises |-> FALSE, json |-> [status |-> "completed"]],
     [raises |-> FALSE, json |-> [status |-> "error", error |-> "Audio file is corrupt"]],
     [raises |-> FALSE, json |-> [status |-> "error"]],
     [raises |-> FALSE, json |-> [message |-> "Too many requests"]],
     [raises |-> TRUE, json |-> [exc |-> "Connection aborted."]]}

(* Variant: the poll is addressed to the upload handle. *)
PollingUrlOfUpload(r) == audio_url[r]

(* polling_url, main.py:104: the transcript the poll is addressed to *)
PollingUrl(r) == transcript_id[r]

(* Variant: off by one, "attempt <= max_attempts". *)
LoopCondInclusive(a) == a <= max_attempts

(* while attempt < max_attempts, main.py:111 *)
LoopCond(a) == a < max_attempts

(* dict.get(key, default) *)
DictGet(d, key, default) == IF key \in DOMAIN d THEN d[key] ELSE default

(* Variant: the completed branch tests another status word and never returns. *)
PollStepMissesCompleted(p) ==
    IF "status" \notin DOMAIN p THEN Exc("'status'")
    ELSE IF p.status = "complete"
         THEN IF "text" \in DOMAIN p THEN Ret([text |-> p.text]) ELSE Exc("'text'")
    ELSE IF p.status = "error"
         THEN Ret([error |-> DictGet(p, "error", "Transcription failed")])
    ELSE Go

(* Variant: the error branch reads polling["error"] without a default. *)
PollStepNoDefault(p) ==
    IF "status" \notin DOMAIN p THEN Exc("'status'")
    ELSE IF p.status = "completed"
         THEN IF "text" \in DOMAIN p THEN Ret([text |-> p.text]) ELSE Exc("'text'")
    ELSE IF p.status = "error"
         THEN IF "error" \in DOMAIN p THEN Ret([error |-> p.error]) ELSE Exc("'error'")
    ELSE Go

(* The loop body after the poll, main.py:117-124 *)
PollStep(p) ==
    IF "status" \notin DOMAIN p THEN Exc("'status'")
    ELSE IF p.status = "completed"
         THEN IF "text" \in DOMAIN p THEN Ret([text |-> p.text]) ELSE Exc("'text'")
    ELSE IF p.status = "error"
         THEN Ret([error |-> DictGet(p, "error", "Transcription failed")])
    ELSE Go

SttPoll(r) ==
    /\ loop = r
    /\ pc[r] = "poll"
    /\ LoopCond(attempt[r])
    /\ \E g \in PollReplies :
          /\ polling' = [polling EXCEPT ![r] = IF g.raises THEN @ ELSE g.json]
          /\ SttResult(r, IF g.raises THEN Exc(g.json.exc) ELSE PollStep(g.json), "sleep")
          /\ fault' = [fault EXCEPT ![r] =
                          IF g.raises \/ "status" \notin DOMAIN g.json THEN TRUE
                          ELSE \/ g.json.status = "error"
                               \/ g.json.status = "completed" /\ "text" \notin DOMAIN g.json]
    /\ polls' = [polls EXCEPT ![r] = @ + 1]
    /\ polled' = [polled EXCEPT ![r] = @ \cup {PollingUrl(r)}]
    /\ UNCHANGED <<boot, dir, kind, loop, upload, audio_url, transcript_req,
                   transcript_id, attempt, filename, issued, remote, submits, sleeps,
                   written, served>>

(* time.sleep(1); attempt += 1, main.py:123-124 *)
SttSleep(r) ==
    /\ loop = r
    /\ pc[r] = "sleep"
    /\ sleeps' = [sleeps EXCEPT ![r] = @ + 1]
    /\ attempt' = [attempt EXCEPT ![r] = @ + 1]
    /\ pc' = [pc EXCEPT ![r] = "poll"]
    /\ UNCHANGED <<fault, boot, dir, kind, resp, loop, upload, audio_url, transcript_req,
                   transcript_id, polling, filename, issued, remote, submits, polls,
                   polled, written, served>>

(* The loop condition fails, main.py:126 *)
SttTimeout(r) ==
    /\ loop = r
    /\ pc[r] = "poll"
    /\ ~LoopCond(attempt[r])
    /\ SttResult(r, Ret([error |-> "Transcription timeout"]), "poll")
    /\ fault' = [fault EXCEPT ![r] = TRUE]
    /\ UNCHANGED <<boot, dir, kind, loop, sttLocals, filename, issued, remote,
                   sttCalls, written, served>>

-----------------------------------------------------------------------------
(* text_to_speech, main.py:136-152 *)

(* Variant: every request saves under the download name. *)
FileNameFixed(u) == Mp3("speech")

(* TEMP_DIR / f"{uuid.uuid4()}.mp3", main.py:139 *)
FileName(u) == Mp3(u)

(* uuid.uuid4(): a value not returned before; "uuid<n>" stands for the n-th *)
Uuid4 == "uuid" \o ToString(Cardinality(issued) + 1)

TtsExcept(m) == [error |-> m]

FileResponse(f) == [path |-> f, media_type |-> "audio/mpeg", filename |-> "speech.mp3"]

TtsBegin(r) ==
    /\ Dispatch(r, "tts")
    /\ filename' = [filename EXCEPT ![r] = FileName(Uuid4)]
    /\ issued' = issued \cup {Uuid4}
    /\ loop' = r
    /\ pc' = [pc EXCEPT ![r] = "synth"]
    /\ UNCHANGED <<fault, boot, dir, resp, sttLocals, remote, sttCalls, written, served>>

(* gTTS(text) raises, or save() raises before it has opened the file *)
TtsFails(r) ==
    /\ resp' = [resp EXCEPT ![r] = TtsExcept("No text to speak")]
    /\ fault' = [fault EXCEPT ![r] = TRUE]
    /\ UNCHANGED <<dir, written>>

(* save() has opened the file and then fails to fetch the audio *)
TtsSaveBreaks(r) ==
    /\ dir' = Store(dir, filename[r], r)
    /\ resp' = [resp EXCEPT ![r] = TtsExcept("Failed to connect")]
    /\ fault' = [fault EXCEPT ![r] = TRUE]
    /\ written' = written \cup {<<r, filename[r]>>}

TtsSaved(r) ==
    /\ dir' = Store(dir, filename[r], r)
    /\ resp' = [resp EXCEPT ![r] = FileResponse(filename[r])]
    /\ UNCHANGED fault
    /\ written' = written \cup {<<r, filename[r]>>}

(* main.py:141-149 *)
TtsSynth(r) ==
    /\ loop = r
    /\ pc[r] = "synth"
    /\ (TtsFails(r) \/ TtsSaveBreaks(r) \/ TtsSaved(r))
    /\ pc' = [pc EXCEPT ![r] = "returned"]
    /\ UNCHANGED <<boot, kind, loop, sttLocals, filename, issued, remote, sttCalls,
                   served>>

-----------------------------------------------------------------------------
(* The handler's frame ends: its locals are gone, the event loop is free, and
   the returned value goes to the client. A FileResponse is sent afterwards. *)
Respond(r) ==
    /\ loop = r
    /\ pc[r] = "returned"
    /\ loop' = NoReq
    /\ pc' = [pc EXCEPT ![r] = IF "path" \in DOMAIN resp[r] THEN "sending" ELSE "done"]
    /\ upload' = [upload EXCEPT ![r] = 0]
    /\ audio_url' = [audio_url EXCEPT ![r] = 0]
    /\ transcript_req' = [transcript_req EXCEPT ![r] = 0]
    /\ transcript_id' = [transcript_id EXCEPT ![r] = 0]
    /\ attempt' = [attempt EXCEPT ![r] = 0]
    /\ polling' = [polling EXCEPT ![r] = Unbound]
    /\ filename' = [filename EXCEPT ![r] = Unbound]
    /\ submits' = [submits EXCEPT ![r] = 0]
    /\ polls' = [polls EXCEPT ![r] = 0]
    /\ sleeps' = [sleeps EXCEPT ![r] = 0]
    /\ polled' = [polled EXCEPT ![r] = {}]
    /\ UNCHANGED <<fault, boot, dir, kind, resp, issued, remote, written, served>>

SendFile(r) ==
    /\ loop = NoReq
    /\ pc[r] = "sending"
    /\ served' = served \cup
          {<<r, IF resp[r].path \in DOMAIN dir THEN dir[resp[r].path] ELSE NoReq>>}
    /\ pc' = [pc EXCEPT ![r] = "done"]
    /\ UNCHANGED <<fault, boot, dir, kind, resp, loop, sttLocals, filename, issued, remote,
                   sttCalls, written>>

-----------------------------------------------------------------------------

(* Every step the handler of request r can take. *)
Step(r) ==
    \/ Root(r) \/ Health(r) \/ Chat(r)
    \/ SttBegin(r) \/ SttRead(r) \/ SttUpload(r) \/ SttSubmit(r)
    \/ SttPoll(r) \/ SttSleep(r) \/ SttTimeout(r)
    \/ TtsBegin(r) \/ TtsSynth(r)
    \/ Respond(r) \/ SendFile(r)

Init ==
    /\ env \in [GROQ_API_KEY : EnvValues, ASSEMBLYAI_API_KEY : EnvValues]
    /\ proc = "import"
    /\ \E n \in 0..MaxOld : dir = InitialDir(n)
    /\ todo = {}
    /\ unlinkFailed = {}
    /\ atStartup = {}
    /\ kind = [r \in Reqs |-> "none"]
    /\ pc = [r \in Reqs |-> "none"]
    /\ resp = [r \in Reqs |-> Unbound]
    /\ fault = [r \in Reqs |-> FALSE]
    /\ loop = NoReq
    /\ upload = [r \in Reqs |-> 0]
    /\ audio_url = [r \in Reqs |-> 0]
    /\ transcript_req = [r \in Reqs |-> 0]
    /\ transcript_id = [r \in Reqs |-> 0]
    /\ attempt = [r \in Reqs |-> 0]
    /\ polling = [r \in Reqs |-> Unbound]
    /\ filename = [r \in Reqs |-> Unbound]
    /\ issued = {}
    /\ jobOf = [r \in Reqs |-> 0]
    /\ submits = [r \in Reqs |-> 0]
    /\ polls = [r \in Reqs |-> 0]
    /\ sleeps = [r \in Reqs |-> 0]
    /\ polled = [r \in Reqs |-> {}]
    /\ written = {}
    /\ served = {}

Next ==
    \/ ModuleInit
    \/ CleanupBegin
    \/ \E f \in OldMp3 : CleanupUnlink(f)
    \/ CleanupEnd
    \/ \E r \in Reqs : Arrive(r)
    \/ \E r \in Reqs : Step(r)

Spec == Init /\ [][Next]_vars

-----------------------------------------------------------------------------
(* Properties *)

IsStt(r) == kind[r] = "stt"
LastStatus(r) == IF "status" \in DOMAIN polling[r] THEN polling[r].status ELSE "<none>"

(* C1: in /stt, when poll k (1 <= k <= 60) is the first poll answered with a
   terminal status and that status is "completed", the handler returns
   {"text": the text of poll k}; exactly k polls were made, each of the k-1
   earlier ones followed by one sleep, and the handler makes no call after
   poll k (it has left the loop through the return statement). *)
C1_CompletedReturnsText ==
    \A r \in Reqs :
        (IsStt(r) /\ LastStatus(r) = "completed") =>
            /\ pc[r] = "returned"
            /\ polls[r] \in 1..60
            /\ polls[r] = attempt[r] + 1
            /\ sleeps[r] = polls[r] - 1
            /\ "text" \in DOMAIN polling[r] => resp[r] = [text |-> polling[r].text]

C1_Witness ==
    \E r \in Reqs :
        /\ IsStt(r) /\ pc[r] = "returned" /\ polls[r] = 60 /\ sleeps[r] = 59
        /\ LastStatus(r) = "completed"
        /\ resp[r] = [text |-> "hello world"]

(* C2: in /stt, no handler makes more than 60 polls; a handler whose polls
   were all answered with a status that is neither "completed" nor "error"
   returns after exactly 60 polls, and what it returns is
   {"error": "Transcription timeout"}. *)
C2_TimeoutAfterSixtyPolls ==
    \A r \in Reqs :
        IsStt(r) =>
            /\ polls[r] <= 60
            /\ (pc[r] = "returned" /\ polls[r] > 0 /\ attempt[r] = polls[r]) =>
                   /\ polls[r] = 60
                   /\ sleeps[r] = 60
                   /\ resp[r] = [error |-> "Transcription timeout"]
            /\ (pc[r] = "returned" /\ resp[r] = [error |-> "Transcription timeout"]) =>
                   polls[r] = 60

C2_Witness ==
    \E r \in Reqs :
        /\ IsStt(r) /\ pc[r] = "returned" /\ polls[r] = 60 /\ attempt[r] = 60
        /\ LastStatus(r) = "processing"
        /\ resp[r] = [error |-> "Transcription timeout"]

(* C3: in /stt, when poll k is the first poll answered with a terminal status
   and that status is "error", the handler returns {"error": m}, m the error
   message of poll k or "Transcription failed" when poll k carries none, and
   it neither polls nor sleeps after poll k. *)
C3_ErrorReturnsMessage ==
    \A r \in Reqs :
        (IsStt(r) /\ LastStatus(r) = "error") =>
            /\ pc[r] = "returned"
            /\ polls[r] \in 1..60
            /\ polls[r] = attempt[r] + 1
            /\ sleeps[r] = polls[r] - 1
            /\ resp[r] = [error |-> IF "error" \in DOMAIN polling[r]
                                    THEN polling[r].error ELSE "Transcription failed"]

C3_Witness ==
    \E r, q \in Reqs :
        /\ IsStt(r) /\ pc[r] = "returned" /\ polls[r] = 60
        /\ polling[r] = [status |-> "error"]
        /\ resp[r] = [error |-> "Transcription failed"]
        /\ IsStt(q) /\ pc[q] = "done" /\ resp[q] = [error |-> "Audio file is corrupt"]

(* C4: in /stt, when the upload call answers with a status other than 200 the
   handler returns {"error": "Failed to upload audio"} and has made neither a
   submission call nor a polling call. *)
C4_UploadFailureStops ==
    \A r \in Reqs :
        (IsStt(r) /\ upload[r] \notin {0, 200}) =>
            /\ pc[r] = "returned"
            /\ resp[r] = [error |-> "Failed to upload audio"]
            /\ submits[r] = 0
            /\ polls[r] = 0
            /\ polled[r] = {}

C4_Witness ==
    \E r \in Reqs :
        /\ IsStt(r) /\ upload[r] = 401 /\ pc[r] = "returned"
        /\ resp[r] = [error |-> "Failed to upload audio"]

(* C5: while a /stt handler sleeps between two polls, every other request
   that is waiting for the event loop (accepted, resumed after its read, or
   with a file to send) can take its next step. *)
C5_OthersRunDuringSleep ==
    \A r, q \in Reqs :
        (pc[r] = "sleep" /\ q # r /\ pc[q] \in {"accepted", "read", "sending"}) =>
            ENABLED Step(q)

(* C6: in /chat, /stt and /tts no exception leaves the handler: every request
   whose handling has failed at some step (a raised exception, a non-200
   answer, a body without the expected key, a remote "error" status, the
   timeout) has ended with an error-shaped value, {"error": msg} for /stt and
   /tts and {"response": "Error: ..."} for /chat, and the process goes on
   serving. *)
C6_FailuresBecomeErrorPayloads ==
    \A r \in Reqs :
        /\ "raised" \notin DOMAIN resp[r]
        /\ fault[r] =>
              /\ pc[r] \in {"returned", "done"}
              /\ proc = "serving"
              /\ kind[r] \in {"chat", "stt", "tts"}
              /\ kind[r] \in {"stt", "tts"} => DOMAIN resp[r] = {"error"}
              /\ kind[r] = "chat" =>
                    /\ DOMAIN resp[r] = {"response"}
                    /\ resp[r].response \in {"Error: Connection error.",
                                             "Error: list index out of range"}

C6_Witness ==
    \E r, q \in Reqs :
        /\ IsStt(r) /\ fault[r] /\ resp[r] = [error |-> "'id'"]
        /\ kind[q] = "chat" /\ fault[q] /\ pc[q] = "done"

(* C7 as claimed: once the startup sweep has run, temp_audio holds no .mp3
   file. *)
C7_NoMp3AfterSweep ==
    proc = "serving" => {f \in atStartup : f.suffix = ".mp3"} = {}

(* C7: once the startup sweep has run, the .mp3 files left in temp_audio are
   exactly those whose deletion failed (none when every deletion succeeded),
   and the files that are not .mp3 are still there. *)
C7_SweepLeavesOnlyFailedDeletions ==
    /\ proc \in {"cleanup", "serving"} =>
          unlinkFailed \subseteq {f \in DOMAIN dir : f.suffix = ".mp3"}
    /\ proc = "serving" =>
          /\ {f \in atStartup : f.suffix = ".mp3"} = unlinkFailed
          /\ Notes \in atStartup

C7_Witness ==
    /\ proc = "serving"
    /\ unlinkFailed = {Mp3("old1")}
    /\ atStartup = {Mp3("old1"), Notes}

(* C8: when GROQ_API_KEY or ASSEMBLYAI_API_KEY is absent or empty, the process
   never gets past module initialisation: no request is accepted or answered
   on any route; so every /health answer reports both credentials as
   configured. *)
C8_NoServiceWithoutCredentials ==
    /\ (env.GROQ_API_KEY \in {Unset, ""} \/ env.ASSEMBLYAI_API_KEY \in {Unset, ""}) =>
          /\ proc \in {"import", "crashed"}
          /\ \A r \in Reqs : pc[r] = "none" /\ kind[r] = "none" /\ resp[r] = Unbound
    /\ \A r \in Reqs :
          (kind[r] = "health" /\ resp[r] # Unbound) =>
              resp[r].groq_configured /\ resp[r].assemblyai_configured

C8_Witness ==
    /\ proc = "crashed"
    /\ env.GROQ_API_KEY = "key"
    /\ env.ASSEMBLYAI_API_KEY = ""

(* C9: within one /stt request the calls go upload, submit, polls: a submit
   is made only after a 200 upload, a poll only after that request's own
   submission answered 200, and every poll is addressed to the transcript id
   that submission returned, never to the job of another request; when the
   submission answers with another status the handler returns
   {"error": "Failed to request transcription"} without any poll. *)
C9_PollsOwnJobAfterSubmit ==
    \A r \in Reqs :
        IsStt(r) =>
            /\ submits[r] <= 1
            /\ submits[r] > 0 => upload[r] = 200
            /\ polls[r] > 0 =>
                  /\ submits[r] = 1 /\ transcript_req[r] = 200
                  /\ jobOf[r] # 0
                  /\ polled[r] = {jobOf[r]}
            /\ polls[r] = 0 => polled[r] = {}
            /\ \A q \in Reqs \ {r} : jobOf[q] # 0 => jobOf[q] \notin polled[r]
            /\ transcript_req[r] \notin {0, 200} =>
                  /\ pc[r] = "returned"
                  /\ resp[r] = [error |-> "Failed to request transcription"]
                  /\ polls[r] = 0

C9_Witness ==
    \E r, q \in Reqs :
        /\ r # q
        /\ IsStt(r) /\ polls[r] > 1 /\ polled[r] = {jobOf[r]}
        /\ IsStt(q) /\ pc[q] = "read" /\ jobOf[q] = 0

(* C10: the files saved by different /tts requests have different names, a
   saved file is never overwritten, a file response sends the file its own
   request saved, and no handler removes a file: everything that was in
   temp_audio after the sweep or was saved since is still there. *)
C10_UniqueNamesNoDeletion ==
    /\ \A a, b \in written : a[1] # b[1] => a[2] # b[2]
    /\ \A r, q \in Reqs :
          (r # q /\ filename[r] # Unbound /\ "path" \in DOMAIN resp[q]) =>
              filename[r] # resp[q].path
    /\ \A a \in written : a[2] \in DOMAIN dir /\ dir[a[2]] = a[1]
    /\ \A a \in served : a[2] = a[1]
    /\ proc = "serving" => atStartup \subseteq DOMAIN dir

C10_Witness ==
    /\ Cardinality(written) = 2
    /\ Cardinality(served) = 2
    /\ unlinkFailed # {}

=============================================================================
